---- MODULE Spec2Model ----
(***************************************************************************)
(* Quiz_web_app (quiz_app): the quiz session flow of views.py over the     *)
(* QuizQuestion / UserScore tables of models.py, the forms of forms.py and *)
(* the admin operations of admin.py.                                       *)
(*                                                                         *)
(* Representation choices:                                                 *)
(*  - a Python dict is a function whose DOMAIN is the set of present keys; *)
(*  - a table is a function from primary keys to rows; primary keys are    *)
(*    handed out increasing and never reused (AutoField);                  *)
(*  - created_at grows with the primary key, so ordering = ['-created_at'] *)
(*    is "primary key descending";                                         *)
(*  - time is an integer clock `now`; an ISO string is [iso |-> t];        *)
(*  - a float percentage is the exact fraction [num, den] (den = 0 is an   *)
(*    unset attribute, Python None).                                       *)
(***************************************************************************)
EXTENDS Integers, Sequences, FiniteSets, TLC

VARIABLES
    questions,     \* QuizQuestion table: id -> row
    nextQid,       \* next QuizQuestion primary key
    scores,        \* UserScore table: id -> row
    nextSid,       \* next UserScore primary key
    session,       \* per user: request.session, a dict
    now,           \* timezone.now()
    adminOps,      \* number of admin operations performed so far
    page,          \* per user: the last response sent to the user's browser
    shownCount     \* per UserScore id: how often quiz_results_view rendered it

vars == <<questions, nextQid, scores, nextSid, session, now, adminOps,
          page, shownCount>>

-----------------------------------------------------------------------------
(* Bounds of the model *)

MaxTime == 1        \* the clock stops here
MaxAdminOps == 1    \* requests to the admin site
MaxScores == 1      \* UserScore rows created while the admin is at work
MaxQuizzes == 2     \* UserScore rows created while the clock runs
MaxTotal == 10  \* questions of a quiz in the grading specification
MaxRows == 3  \* UserScore rows in the history specification
MaxPlayers == 21  \* users with UserScore rows in the leaderboard specification

Users == {"u1"}

\* what a client may put into one answer field: a valid tag or an invalid one
AnswerInputs == {"A", "X"}
\* what a client may put into the num_questions field
NumInputs == {0, 2, 51}
\* what a client may put into the difficulty field
DifficultyInputs == {"ALL", "EASY"}
\* the values the admin change form is given
EditTexts == {"Which planet is the largest one?"}
EditTags == {"A"}
\* the primary keys the admin's requests name
AdminPicks == {1}

-----------------------------------------------------------------------------
(* Program constants *)

Tags == {"A", "B", "C", "D"}
Difficulties == {"EASY", "MEDIUM", "HARD"}
DIFFICULTY_CHOICES == {"ALL"} \cup Difficulties
MinNumQuestions == 1
MaxNumQuestions == 50
DefaultNumQuestions == 10
TopN == 20
RecentN == 10

DefaultSettings ==
    [num_questions |-> DefaultNumQuestions, difficulty |-> "ALL", random_order |-> TRUE]

-----------------------------------------------------------------------------
(* dict helpers *)

EmptyDict == <<>>
Has(d, k) == k \in DOMAIN d
Get(d, k, default) == IF k \in DOMAIN d THEN d[k] ELSE default
Put(d, k, v) == [x \in (DOMAIN d) \cup {k} |-> IF x = k THEN v ELSE d[x]]
Del(d, k) == [x \in (DOMAIN d) \ {k} |-> d[x]]

Range(s) == {s[i] : i \in DOMAIN s}

\* the injective sequences of length n over S
RECURSIVE Arrangements(_, _)
Arrangements(S, n) ==
    IF n = 0 THEN {<<>>}
    ELSE UNION {{<<x>> \o t : t \in Arrangements(S \ {x}, n - 1)} : x \in S}

Min(a, b) == IF a <= b THEN a ELSE b

\* S sorted descending
RECURSIVE Descending(_)
Descending(S) ==
    IF S = {} THEN <<>>
    ELSE LET m == CHOOSE x \in S : \A y \in S : y <= x
         IN  <<m>> \o Descending(S \ {m})

Prefix(s, n) == SubSeq(s, 1, Min(n, Len(s)))

-----------------------------------------------------------------------------
(* models.py *)

Choices(a, b, c, d) == [t \in Tags |-> CASE t = "A" -> a [] t = "B" -> b
                                          [] t = "C" -> c [] OTHER -> d]

\* QuizQuestion.get_choices, as the dict the callers make of it
get_choices(q) == q.choices

NoPct == [num |-> 0, den |-> 0]

RECURSIVE GCD(_, _)
GCD(a, b) == IF b = 0 THEN a ELSE GCD(b, a % b)

Frac(n, d) == LET g == GCD(n, d) IN
    IF g = 0 THEN [num |-> 0, den |-> 1] ELSE [num |-> n \div g, den |-> d \div g]

\* UserScore.save that trusts the percentage of the caller
UserScoreSave_trusting(obj) == obj

\* UserScore.save
UserScoreSave(obj) ==
    [obj EXCEPT !.percentage =
        IF obj.total_questions > 0
        THEN Frac(obj.score * 100, obj.total_questions)
        ELSE Frac(0, 1)]

PctGE(p, k) == p.num >= k * p.den

\* get_grade with the thresholds excluded
get_grade_strict(us) ==
    IF us.percentage.num > 90 * us.percentage.den THEN "A"
    ELSE IF us.percentage.num > 80 * us.percentage.den THEN "B"
    ELSE IF us.percentage.num > 70 * us.percentage.den THEN "C"
    ELSE IF us.percentage.num > 60 * us.percentage.den THEN "D"
    ELSE "F"

get_grade(us) ==
    IF PctGE(us.percentage, 90) THEN "A"
    ELSE IF PctGE(us.percentage, 80) THEN "B"
    ELSE IF PctGE(us.percentage, 70) THEN "C"
    ELSE IF PctGE(us.percentage, 60) THEN "D"
    ELSE "F"

is_passed(us) == PctGE(us.percentage, 60)

-----------------------------------------------------------------------------
(* forms.py *)

FieldName(id) == "question_" \o ToString(id)

\* int(field_name.replace('question_', ''))
FieldId(name, ids) == CHOOSE i \in ids : FieldName(i) = name

\* QuizForm: one required ChoiceField over A..D per question
QuizFormErrors(data, qs) ==
    LET names == {FieldName(qs[i].id) : i \in DOMAIN qs}
    IN  [n \in {m \in names : ~Has(data, m) \/ Get(data, m, "") \notin Tags} |->
            IF Has(data, n) THEN "invalid_choice" ELSE "required"]

QuizFormCleaned(data, qs) ==
    [n \in {FieldName(qs[i].id) : i \in DOMAIN qs} |-> data[n]]

\* QuizForm.get_user_answers
get_user_answers(cleaned, qs) ==
    LET ids == {qs[i].id : i \in DOMAIN qs}
    IN  [i \in ids |-> cleaned[FieldName(i)]]

ActiveCount == Cardinality({i \in DOMAIN questions : questions[i].is_active})

\* clean_num_questions counting the inactive questions too
NumQuestionsError_total(num) ==
    IF num < MinNumQuestions THEN [code |-> "min_value", count |-> MinNumQuestions]
    ELSE IF num > MaxNumQuestions THEN [code |-> "max_value", count |-> MaxNumQuestions]
    ELSE IF num > Cardinality(DOMAIN questions)
         THEN [code |-> "only_available", count |-> Cardinality(DOMAIN questions)]
    ELSE [code |-> "ok", count |-> num]

\* IntegerField(min_value=1, max_value=50) then clean_num_questions
NumQuestionsError(num) ==
    IF num < MinNumQuestions THEN [code |-> "min_value", count |-> MinNumQuestions]
    ELSE IF num > MaxNumQuestions THEN [code |-> "max_value", count |-> MaxNumQuestions]
    ELSE IF num > ActiveCount THEN [code |-> "only_available", count |-> ActiveCount]
    ELSE [code |-> "ok", count |-> num]

SettingsFormErrors(num, diff) ==
    LET e1 == IF NumQuestionsError(num).code # "ok"
              THEN Put(EmptyDict, "num_questions", NumQuestionsError(num))
              ELSE EmptyDict
    IN  IF diff \notin DIFFICULTY_CHOICES
        THEN Put(e1, "difficulty", [code |-> "invalid_choice", count |-> 0])
        ELSE e1

-----------------------------------------------------------------------------
(* views.py helpers *)

IsoFormat(t) == [iso |-> t]
FromIsoFormat(s) == s.iso

\* the model instance of row id, carrying its primary key
QObj(id) == [id |-> id,
             question_text |-> questions[id].question_text,
             choices |-> questions[id].choices,
             correct_answer |-> questions[id].correct_answer,
             difficulty_level |-> questions[id].difficulty_level,
             is_active |-> questions[id].is_active]

\* the query without the is_active filter
SelectQuestions_inactive(settings) ==
    LET match == {i \in DOMAIN questions :
                     \/ settings.difficulty = "ALL"
                     \/ questions[i].difficulty_level = settings.difficulty}
        n == Min(settings.num_questions, Cardinality(match))
        idseqs == IF settings.random_order
                  THEN Arrangements(match, n)
                  ELSE {Prefix(Descending(match), n)}
    IN  {[k \in DOMAIN s |-> QObj(s[k])] : s \in idseqs}

\* quiz_view lines 108-118: the lists the query can return
SelectQuestions(settings) ==
    LET match == {i \in DOMAIN questions :
                     /\ questions[i].is_active
                     /\ \/ settings.difficulty = "ALL"
                        \/ questions[i].difficulty_level = settings.difficulty}
        n == Min(settings.num_questions, Cardinality(match))
        idseqs == IF settings.random_order
                  THEN Arrangements(match, n)
                  ELSE {Prefix(Descending(match), n)}
    IN  {[k \in DOMAIN s |-> QObj(s[k])] : s \in idseqs}

\* the score as the number of questions answered
CalcScore_answered(qs, user_answers) ==
    Cardinality({k \in DOMAIN qs : Has(user_answers, qs[k].id)})

\* quiz_view lines 133-139
CalcScore(qs, user_answers) ==
    Cardinality({k \in DOMAIN qs :
        Has(user_answers, qs[k].id) /\ user_answers[qs[k].id] = qs[k].correct_answer})

\* quiz_view lines 156-161
Snapshot(qs) ==
    [k \in DOMAIN qs |-> [id |-> qs[k].id,
                          question |-> qs[k].question_text,
                          choices |-> get_choices(qs[k]),
                          correct_answer |-> qs[k].correct_answer]]

\* a dict with integer keys as the JSONField stores it: keys become strings
JsonKeys(d) ==
    [s \in {ToString(i) : i \in DOMAIN d} |->
        d[CHOOSE i \in DOMAIN d : ToString(i) = s]]

\* quiz_view lines 141-147
TimeTaken(sess) ==
    IF Has(sess, "quiz_start_time")
    THEN <<now - FromIsoFormat(sess["quiz_start_time"])>>
    ELSE <<>>

\* quiz_view lines 150-162: the instance handed to save()
NewUserScore(u, qs, user_answers, sess) ==
    [user |-> u,
     score |-> CalcScore(qs, user_answers),
     total_questions |-> Len(qs),
     percentage |-> NoPct,
     time_taken |-> TimeTaken(sess),
     user_answers |-> JsonKeys(user_answers),
     quiz_questions |-> Snapshot(qs)]

\* the breakdown with the correct answers read from the QuizQuestion table
DetailedResults_live(us) ==
    [k \in DOMAIN us.quiz_questions |->
        LET qd == us.quiz_questions[k]
            ua == Get(us.user_answers, ToString(qd.id), "Not answered")
            correct == IF qd.id \in DOMAIN questions
                       THEN questions[qd.id].correct_answer ELSE qd.correct_answer
        IN  [question |-> qd.question,
             choices |-> qd.choices,
             user_answer |-> ua,
             correct_answer |-> correct,
             is_correct |-> (ua = correct),
             correct_text |-> Get(qd.choices, correct, "Unknown"),
             user_text |-> Get(qd.choices, ua, "Not answered")]]

\* quiz_results_view lines 200-215
DetailedResults(us) ==
    [k \in DOMAIN us.quiz_questions |->
        LET qd == us.quiz_questions[k]
            ua == Get(us.user_answers, ToString(qd.id), "Not answered")
        IN  [question |-> qd.question,
             choices |-> qd.choices,
             user_answer |-> ua,
             correct_answer |-> qd.correct_answer,
             is_correct |-> (ua = qd.correct_answer),
             correct_text |-> Get(qd.choices, qd.correct_answer, "Unknown"),
             user_text |-> Get(qd.choices, ua, "Not answered")]]

\* a fraction cut to one decimal, in tenths
Round1_truncate(p) == (p.num * 10) \div p.den

\* round(x, 1) of a fraction, in tenths (ties to even)
Round1(p) ==
    LET n == p.num * 10
        q == n \div p.den
        r == n % p.den
    IN  IF 2 * r > p.den \/ (2 * r = p.den /\ q % 2 = 1) THEN q + 1 ELSE q

\* a response: render / redirect / 404, the template or the route, the message
\* of the messages framework, the errors of the settings form, the questions
\* of the quiz form when the page is the quiz page, and the context of the
\* results, history and leaderboard templates (<<>> when there is none)
Response(status, target, message, errors, qs) ==
    [status |-> status, target |-> target, message |-> message, errors |-> errors,
     questions |-> qs, context |-> <<>>]

\* render(request, template, context)
Render(template, context) ==
    [Response("render", template, "", EmptyDict, <<>>) EXCEPT !.context = <<context>>]

-----------------------------------------------------------------------------
(* Initial state: a question bank of two active questions, no scores *)

InitQuestions ==
    (1 :> [question_text |-> "What is two plus two?",
           choices |-> Choices("3", "4", "5", "6"),
           correct_answer |-> "B",
           difficulty_level |-> "EASY",
           is_active |-> TRUE])
    @@
    (2 :> [question_text |-> "What is the capital of France?",
           choices |-> Choices("Paris", "Rome", "Oslo", "Bern"),
           correct_answer |-> "A",
           difficulty_level |-> "HARD",
           is_active |-> TRUE])

Init ==
    /\ questions = InitQuestions
    /\ nextQid = 3
    /\ scores = EmptyDict
    /\ nextSid = 1
    /\ session = [u \in Users |-> EmptyDict]
    /\ now = 0
    /\ adminOps = 0
    /\ page = [u \in Users |-> Response("", "", "", EmptyDict, <<>>)]
    /\ shownCount = EmptyDict

-----------------------------------------------------------------------------
(* views.py *)

\* quiz_setup_view, GET
QuizSetupGet(u) ==
    /\ page' = [page EXCEPT ![u] = Response("render", "quiz_setup.html", "", EmptyDict, <<>>)]
    /\ UNCHANGED <<questions, nextQid, scores, nextSid, session, now, adminOps,
                   shownCount>>

\* quiz_setup_view, POST
QuizSetupPost(u, num, diff, rnd) ==
    LET errors == SettingsFormErrors(num, diff) IN
    /\ IF errors = EmptyDict
       THEN /\ session' = [session EXCEPT ![u] = Put(@, "quiz_settings",
                              [num_questions |-> num, difficulty |-> diff,
                               random_order |-> rnd])]
            /\ page' = [page EXCEPT ![u] = Response("redirect", "quiz", "", EmptyDict, <<>>)]
       ELSE /\ UNCHANGED session
            /\ page' = [page EXCEPT ![u] = Response("render", "quiz_setup.html", "", errors, <<>>)]
    /\ UNCHANGED <<questions, nextQid, scores, nextSid, now, adminOps, shownCount>>

\* quiz_view lines 101-106
QuizSettings(u) == Get(session[u], "quiz_settings", DefaultSettings)

\* quiz_view lines 108-122: a list the query returns, <<>> when there is none
QuizQuestions(u) ==
    IF SelectQuestions(QuizSettings(u)) = {} THEN {<<>>}
    ELSE SelectQuestions(QuizSettings(u))

NoQuestions == Response("redirect", "quiz_setup",
                        "No questions available for the selected criteria.", EmptyDict,
                        <<>>)

\* quiz_view lines 179-186: the quiz page, its form built on qs
QuizPage(qs) == Response("render", "quiz.html", "", EmptyDict, Snapshot(qs))

\* the start time stored at the first presentation only
RecordStartTime_once(sess) ==
    IF Has(sess, "quiz_start_time") THEN sess
    ELSE Put(sess, "quiz_start_time", IsoFormat(now))

\* quiz_view line 176
RecordStartTime(sess) == Put(sess, "quiz_start_time", IsoFormat(now))

\* quiz_view, GET
QuizGet(u) ==
    \E qs \in QuizQuestions(u) :
        /\ IF qs = <<>>
           THEN /\ page' = [page EXCEPT ![u] = NoQuestions]
                /\ UNCHANGED session
           ELSE /\ session' = [session EXCEPT ![u] = RecordStartTime(@)]
                /\ page' = [page EXCEPT ![u] = QuizPage(qs)]
        /\ UNCHANGED <<questions, nextQid, scores, nextSid, now, adminOps, shownCount>>

\* the session left as it is at submission
EnsureStartTime_absent(sess) == sess

\* quiz_view lines 127-129
EnsureStartTime(sess) ==
    IF ~Has(sess, "quiz_start_time")
    THEN Put(sess, "quiz_start_time", IsoFormat(now))
    ELSE sess

\* quiz_view lines 164-171: hand the result over and clear the quiz data
FinishQuizSession(sess, sid) ==
    Del(Del(Put(sess, "quiz_result_id", sid), "quiz_start_time"), "quiz_settings")

\* the bodies a client can POST to quiz_view: values for any of the fields
\* that a quiz form can hold now or that the page of the client holds
PostInputs(u) ==
    LET ids == {i \in DOMAIN questions : questions[i].is_active}
               \cup {page[u].questions[k].id : k \in DOMAIN page[u].questions}
    IN  UNION {[S -> AnswerInputs] : S \in SUBSET {FieldName(i) : i \in ids}}

\* quiz_view, POST
QuizPost(u, data) ==
    \E qs \in QuizQuestions(u) :
        /\ IF qs = <<>>
           THEN /\ page' = [page EXCEPT ![u] = NoQuestions]
                /\ UNCHANGED <<scores, nextSid, session>>
           ELSE IF QuizFormErrors(data, qs) = EmptyDict
           THEN LET sess1 == EnsureStartTime(session[u])
                    answers == get_user_answers(QuizFormCleaned(data, qs), qs)
                    obj == NewUserScore(u, qs, answers, sess1)
                IN  /\ scores' = Put(scores, nextSid, UserScoreSave(obj))
                    /\ nextSid' = nextSid + 1
                    /\ session' = [session EXCEPT ![u] = FinishQuizSession(sess1, nextSid)]
                    /\ page' = [page EXCEPT ![u] = Response("redirect", "quiz_results", "", EmptyDict, <<>>)]
           ELSE /\ page' = [page EXCEPT ![u] = QuizPage(qs)]
                /\ UNCHANGED <<scores, nextSid, session>>
        /\ UNCHANGED <<questions, nextQid, now, adminOps, shownCount>>

\* the marker left in the session after the results are rendered
ClearResult_keep(sess) == sess

\* quiz_results_view lines 225-227
ClearResult(sess) ==
    IF Has(sess, "quiz_result_id") THEN Del(sess, "quiz_result_id") ELSE sess

\* get_object_or_404(UserScore, id=result_id, user=request.user)
FindUserScore(result_id, u) ==
    {i \in DOMAIN scores : i = result_id /\ scores[i].user = u}

\* quiz_results_view lines 217-223
ResultsContext(us) ==
    [detailed_results |-> DetailedResults(us),
     percentage |-> Round1(us.percentage),
     grade |-> get_grade(us),
     passed |-> is_passed(us)]

NoResults == Response("redirect", "home",
                      "No quiz results found. Please take a quiz first.", EmptyDict,
                      <<>>)

\* quiz_results_view
QuizResults(u) ==
    LET result_id == Get(session[u], "quiz_result_id", 0) IN
    /\ IF result_id = 0
       THEN /\ page' = [page EXCEPT ![u] = NoResults]
            /\ UNCHANGED <<session, shownCount>>
       ELSE IF FindUserScore(result_id, u) = {}
       THEN /\ page' = [page EXCEPT ![u] = Response("404", "", "", EmptyDict, <<>>)]
            /\ UNCHANGED <<session, shownCount>>
       ELSE /\ page' = [page EXCEPT ![u] =
                    Render("results.html",
                           ResultsContext(scores[CHOOSE i \in FindUserScore(result_id, u) : TRUE]))]
            /\ shownCount' = Put(shownCount, result_id, Get(shownCount, result_id, 0) + 1)
            /\ session' = [session EXCEPT ![u] = ClearResult(@)]
    /\ UNCHANGED <<questions, nextQid, scores, nextSid, now, adminOps>>

PctLE(p, q) == p.num * q.den <= q.num * p.den

FracAdd(p, q) == Frac(p.num * q.den + q.num * p.den, p.den * q.den)

\* Sum of the percentages of the rows ids
RECURSIVE SumPct(_)
SumPct(ids) ==
    IF ids = {} THEN Frac(0, 1)
    ELSE LET i == CHOOSE x \in ids : TRUE
         IN  FracAdd(scores[i].percentage, SumPct(ids \ {i}))

\* Avg('percentage') over the rows ids, ids not empty
AvgPct(ids) == Frac(SumPct(ids).num, SumPct(ids).den * Cardinality(ids))

\* the percentage of the newest of the rows ids
MaxPct_newest(ids) ==
    scores[CHOOSE i \in ids : \A j \in ids : j <= i].percentage

\* Max('percentage') over the rows ids, ids not empty
MaxPct(ids) ==
    scores[CHOOSE i \in ids : \A j \in ids :
               PctLE(scores[j].percentage, scores[i].percentage)].percentage

\* sum(score.total_questions for score in user_scores)
RECURSIVE SumTotal(_)
SumTotal(ids) ==
    IF ids = {} THEN 0
    ELSE LET i == CHOOSE x \in ids : TRUE
         IN  scores[i].total_questions + SumTotal(ids \ {i})

\* sum(score.score for score in user_scores)
RECURSIVE SumScore(_)
SumScore(ids) ==
    IF ids = {} THEN 0
    ELSE LET i == CHOOSE x \in ids : TRUE
         IN  scores[i].score + SumScore(ids \ {i})

\* the rows of every user
OwnScores_all(u) == DOMAIN scores

\* UserScore.objects.filter(user=request.user)
OwnScores(u) == {i \in DOMAIN scores : scores[i].user = u}

\* order_by('-percentage').first(): a row of the highest percentage (the
\* database decides among equals), 0 when there is no row
BestScores(ids) ==
    IF ids = {} THEN {0}
    ELSE {i \in ids : \A j \in ids : PctLE(scores[j].percentage, scores[i].percentage)}

\* user_history_view lines 250-258; rows are named by their primary keys
HistoryContext(u, best) ==
    LET mine == OwnScores(u)
        total_attempts == Cardinality(mine)
        average_score == IF total_attempts > 0 THEN AvgPct(mine) ELSE Frac(0, 1)
        total_questions_answered == IF total_attempts > 0 THEN SumTotal(mine) ELSE 0
        total_correct_answers == IF total_attempts > 0 THEN SumScore(mine) ELSE 0
    IN  [user_scores |-> Descending(mine),
         total_attempts |-> total_attempts,
         best_score |-> IF best = 0 THEN <<>> ELSE <<best>>,
         average_score |-> IF average_score.num # 0 THEN Round1(average_score) ELSE 0,
         total_questions_answered |-> total_questions_answered,
         total_correct_answers |-> total_correct_answers,
         overall_accuracy |->
             IF total_questions_answered > 0
             THEN Round1(Frac(total_correct_answers * 100, total_questions_answered))
             ELSE 0]

\* user_history_view
UserHistory(u) ==
    /\ \E best \in BestScores(OwnScores(u)) :
          page' = [page EXCEPT ![u] = Render("user_history.html", HistoryContext(u, best))]
    /\ UNCHANGED <<questions, nextQid, scores, nextSid, session, now, adminOps,
                   shownCount>>

\* the users with UserScore rows: the groups of values('user__username', ...)
Players == {scores[i].user : i \in DOMAIN scores}

\* one row of values(...).annotate(best_score, total_attempts, avg_score)
TopScore(u) ==
    [user__username |-> u,
     best_score |-> MaxPct(OwnScores(u)),
     total_attempts |-> Cardinality(OwnScores(u)),
     avg_score |-> AvgPct(OwnScores(u))]

\* the oldest row of user u
FirstRow(u) == CHOOSE i \in OwnScores(u) : \A j \in OwnScores(u) : i <= j

\* The orders the database may return rows of equal best_score in:
\* order_by('-best_score') names no second key.  Two are modelled, by the
\* age of the users' oldest rows.
TieOrders == {"oldest first", "newest first"}

\* S sorted ascending
RECURSIVE Ascending(_)
Ascending(S) ==
    IF S = {} THEN <<>>
    ELSE LET m == CHOOSE x \in S : \A y \in S : x <= y
         IN  <<m>> \o Ascending(S \ {m})

\* the rows row[u] of the users S in descending order of best_score, equal
\* ones in the order tie of the ages first[u] of their oldest rows
RECURSIVE SortByBest(_, _, _, _)
SortByBest(S, row, first, tie) ==
    IF S = {} THEN <<>>
    ELSE LET m == CHOOSE u \in S : \A v \in S : PctLE(row[v].best_score, row[u].best_score)
             top == {u \in S : row[u].best_score = row[m].best_score}
             ids == IF tie = "oldest first" THEN Ascending({first[u] : u \in top})
                                            ELSE Descending({first[u] : u \in top})
         IN  [i \in DOMAIN ids |-> row[scores[ids[i]].user]]
                 \o SortByBest(S \ top, row, first, tie)

\* order_by('-best_score') over the users S
OrderByBest(S, tie) ==
    SortByBest(S, [u \in S |-> TopScore(u)], [u \in S |-> FirstRow(u)], tie)

\* filter(percentage__gte=80).order_by('-completed_at')[:10]
RecentHighScores ==
    Prefix(Descending({i \in DOMAIN scores : PctLE(Frac(80, 1), scores[i].percentage)}),
         RecentN)

\* leaderboard_view
Leaderboard(u) ==
    /\ \E tie \in TieOrders :
          page' = [page EXCEPT ![u] =
                      Render("leaderboard.html",
                             [top_scores |-> Prefix(OrderByBest(Players, tie), TopN),
                              recent_high_scores |-> RecentHighScores])]
    /\ UNCHANGED <<questions, nextQid, scores, nextSid, session, now, adminOps,
                   shownCount>>

\* time passes between requests
Tick ==
    /\ now < MaxTime
    /\ now' = now + 1
    /\ UNCHANGED <<questions, nextQid, scores, nextSid, session, adminOps,
                   page, shownCount>>

-----------------------------------------------------------------------------
(* admin.py *)

\* one request to the admin site
AdminStep ==
    /\ adminOps < MaxAdminOps
    /\ adminOps' = adminOps + 1
    /\ UNCHANGED <<session, now, page, shownCount>>

\* QuizQuestionAdmin.activate_questions
activate_questions(queryset) ==
    /\ AdminStep
    /\ questions' = [i \in DOMAIN questions |->
                        IF i \in queryset THEN [questions[i] EXCEPT !.is_active = TRUE]
                        ELSE questions[i]]
    /\ UNCHANGED <<nextQid, scores, nextSid>>

\* QuizQuestionAdmin.deactivate_questions
deactivate_questions(queryset) ==
    /\ AdminStep
    /\ questions' = [i \in DOMAIN questions |->
                        IF i \in queryset THEN [questions[i] EXCEPT !.is_active = FALSE]
                        ELSE questions[i]]
    /\ UNCHANGED <<nextQid, scores, nextSid>>

\* one round of the loop of duplicate_questions
DuplicateOf(q) ==
    [q EXCEPT !.question_text = "[COPY] " \o @, !.is_active = FALSE]

\* QuizQuestionAdmin.duplicate_questions: the queryset is walked in the admin's
\* ordering, each copy taking the next primary key
duplicate_questions(queryset) ==
    LET order == Descending(queryset)
        n == Len(order)
    IN  /\ AdminStep
        /\ questions' = [i \in (DOMAIN questions) \cup (nextQid .. nextQid + n - 1) |->
                            IF i \in DOMAIN questions THEN questions[i]
                            ELSE DuplicateOf(questions[order[i - nextQid + 1]])]
        /\ nextQid' = nextQid + n
        /\ UNCHANGED <<scores, nextSid>>

\* the rows the change form of QuizQuestionAdmin can turn row q into: the
\* wording (text and last choice) edited, or the correct answer edited
EditedRows(q) ==
    {[q EXCEPT !.question_text = t, !.choices = [@ EXCEPT !["D"] = "None of these"]] :
        t \in EditTexts}
    \cup {[q EXCEPT !.correct_answer = t] : t \in EditTags}

\* QuizQuestionAdmin change view
AdminChangeQuestion(id, row) ==
    /\ AdminStep
    /\ questions' = [questions EXCEPT ![id] = row]
    /\ UNCHANGED <<nextQid, scores, nextSid>>

NewQuestion ==
    [question_text |-> "Which number is a prime?",
     choices |-> Choices("4", "6", "7", "9"),
     correct_answer |-> "C",
     difficulty_level |-> "MEDIUM",
     is_active |-> TRUE]

\* QuizQuestionAdmin add view
AdminAddQuestion ==
    /\ AdminStep
    /\ questions' = Put(questions, nextQid, NewQuestion)
    /\ nextQid' = nextQid + 1
    /\ UNCHANGED <<scores, nextSid>>

\* QuizQuestionAdmin delete view and delete_selected
AdminDeleteQuestions(queryset) ==
    /\ AdminStep
    /\ questions' = [i \in (DOMAIN questions) \ queryset |-> questions[i]]
    /\ UNCHANGED <<nextQid, scores, nextSid>>

\* UserScoreAdmin.has_add_permission
has_add_permission == FALSE

\* editing scores through the admin left enabled
has_change_permission_default == TRUE

\* UserScoreAdmin.has_change_permission
has_change_permission == FALSE

\* UserScoreAdmin does not override has_delete_permission: ModelAdmin's default
has_delete_permission == TRUE

\* UserScoreAdmin change view: a new score posted for row id
AdminChangeScore(id, score) ==
    /\ AdminStep
    /\ IF has_change_permission
       THEN scores' = [scores EXCEPT ![id] = UserScoreSave([@ EXCEPT !.score = score])]
       ELSE UNCHANGED scores
    /\ UNCHANGED <<questions, nextQid, nextSid>>

\* UserScoreAdmin delete view and delete_selected
AdminDeleteScores(queryset) ==
    /\ AdminStep
    /\ IF has_delete_permission
       THEN scores' = [i \in (DOMAIN scores) \ queryset |-> scores[i]]
       ELSE UNCHANGED scores
    /\ UNCHANGED <<questions, nextQid, nextSid>>

NonEmptySubsets(S) == (SUBSET S) \ {{}}

-----------------------------------------------------------------------------

\* the requests of the users, with at most `limit` UserScore rows created
UserNext(limit) ==
    \E u \in Users :
        \/ QuizSetupGet(u)
        \/ \E n \in NumInputs, d \in DifficultyInputs, r \in BOOLEAN :
              QuizSetupPost(u, n, d, r)
        \/ QuizGet(u)
        \/ \E data \in PostInputs(u) : QuizPost(u, data) /\ nextSid' <= limit + 1
        \/ QuizResults(u)

\* the requests of the admin on the QuizQuestion table
QuestionAdminNext ==
    \/ \E S \in NonEmptySubsets(AdminPicks \cap DOMAIN questions) :
          \/ activate_questions(S)
          \/ deactivate_questions(S)
          \/ duplicate_questions(S)
          \/ AdminDeleteQuestions(S)
    \/ \E id \in AdminPicks \cap DOMAIN questions :
          \E row \in EditedRows(questions[id]) : AdminChangeQuestion(id, row)
    \/ AdminAddQuestion

\* the requests of the admin on the UserScore table
ScoreAdminNext ==
    \/ \E id \in DOMAIN scores : \E sc \in 0 .. scores[id].total_questions :
          AdminChangeScore(id, sc)
    \/ \E S \in NonEmptySubsets(DOMAIN scores) : AdminDeleteScores(S)

\* the requests of the admin
AdminNext == QuestionAdminNext \/ ScoreAdminNext

\* users and admin at work on the tables and the sessions
Next == UserNext(MaxScores) \/ AdminNext

Spec == Init /\ [][Next]_vars

\* users taking quizzes while time passes
NextTimed == UserNext(MaxQuizzes) \/ Tick

SpecTimed == Init /\ [][NextTimed]_vars

-----------------------------------------------------------------------------
(* UserScore rows of larger quizzes, as quiz_view creates them *)

\* question k of a bank of generated questions
GenQuestion(k) ==
    [question_text |-> "Question " \o ToString(k),
     choices |-> Choices("one", "two", "three", "four"),
     correct_answer |-> "A",
     difficulty_level |-> "EASY",
     is_active |-> TRUE]

Bank(n) == [k \in 1 .. n |-> GenQuestion(k)]

\* the row quiz_view creates for user u who is presented questions 1 .. t of
\* the table and answers the first s of them correctly
RowFor(u, s, t) ==
    LET qs == [k \in 1 .. t |-> QObj(k)]
        answers == [k \in 1 .. t |->
                       IF k <= s THEN questions[k].correct_answer
                       ELSE CHOOSE x \in Tags : x # questions[k].correct_answer]
    IN  UserScoreSave(NewUserScore(u, qs, answers,
                                   Put(EmptyDict, "quiz_start_time", IsoFormat(now))))

\* a user who has completed two quizzes of up to MaxTotal questions, the
\* result of the second one not yet shown
GradeInit ==
    /\ questions = Bank(MaxTotal)
    /\ nextQid = MaxTotal + 1
    /\ now = 0
    /\ adminOps = 0
    /\ \E t1 \in 1 .. MaxTotal, t2 \in 1 .. MaxTotal :
          \E s1 \in 0 .. t1, s2 \in 0 .. t2 :
              scores = (1 :> RowFor("u1", s1, t1)) @@ (2 :> RowFor("u1", s2, t2))
    /\ nextSid = 3
    /\ session = [u \in Users |-> Put(EmptyDict, "quiz_result_id", 2)]
    /\ page = [u \in Users |-> Response("redirect", "quiz_results", "", EmptyDict, <<>>)]
    /\ shownCount = (1 :> 1)

GradeNext == \E u \in Users : QuizResults(u)

\* the results of quizzes of every size and score up to MaxTotal
SpecGrade == GradeInit /\ [][GradeNext]_vars

-----------------------------------------------------------------------------
(* Question selection while the admin changes the QuizQuestion table *)

SelectNext ==
    \/ \E u \in Users :
          \/ QuizSetupGet(u)
          \/ \E n \in NumInputs, d \in DifficultyInputs, r \in BOOLEAN :
                QuizSetupPost(u, n, d, r)
          \/ QuizGet(u)
    \/ QuestionAdminNext

\* users setting up and opening quizzes, the admin curating the questions
SpecSelect == Init /\ [][SelectNext]_vars

-----------------------------------------------------------------------------
(* A quiz over a bank of three active questions *)

\* the inputs of the three-question quiz
ThreeNumInputs == {3}
ThreeAnswerInputs == {"A"}

ThreeQuestions ==
    InitQuestions
    @@
    (3 :> [question_text |-> "Which of these is a prime number?",
           choices |-> Choices("7", "8", "9", "10"),
           correct_answer |-> "A",
           difficulty_level |-> "MEDIUM",
           is_active |-> TRUE])

ThreeInit ==
    /\ questions = ThreeQuestions
    /\ nextQid = 4
    /\ scores = EmptyDict
    /\ nextSid = 1
    /\ session = [u \in Users |-> EmptyDict]
    /\ now = 0
    /\ adminOps = 0
    /\ page = [u \in Users |-> Response("", "", "", EmptyDict, <<>>)]
    /\ shownCount = EmptyDict

\* the bodies that give some of the active questions an answer of inputs
PostsOver(inputs) ==
    UNION {[S -> inputs] :
              S \in SUBSET {FieldName(i) : i \in {j \in DOMAIN questions :
                                                       questions[j].is_active}}}

ThreeNext ==
    \E u \in Users :
        \/ \E n \in ThreeNumInputs, r \in BOOLEAN : QuizSetupPost(u, n, "ALL", r)
        \/ QuizGet(u)
        \/ \E data \in PostsOver(ThreeAnswerInputs) :
              QuizPost(u, data) /\ nextSid' <= MaxScores + 1
        \/ QuizResults(u)

\* a user setting up, taking and reviewing quizzes of three questions
SpecThree == ThreeInit /\ [][ThreeNext]_vars

-----------------------------------------------------------------------------
(* The history of users with completed quizzes *)

HistUsers == {"u1", "u2"}

\* the <<score, total>> of the quizzes completed
HistScores == {<<19, 20>>, <<14, 20>>, <<1, 3>>, <<2, 2>>}

SetMax(S) == CHOOSE x \in S : \A y \in S : y <= x

\* up to MaxRows quizzes completed by the users of HistUsers, who have logged
\* in again since
HistInit ==
    /\ questions = Bank(SetMax({p[2] : p \in HistScores}))
    /\ nextQid = SetMax({p[2] : p \in HistScores}) + 1
    /\ now = 0
    /\ adminOps = 0
    /\ \E n \in 0 .. MaxRows :
          /\ \E f \in [1 .. n -> HistUsers \X HistScores] :
                scores = [i \in 1 .. n |-> RowFor(f[i][1], f[i][2][1], f[i][2][2])]
          /\ nextSid = n + 1
    /\ session = [u \in HistUsers |-> EmptyDict]
    /\ page = [u \in HistUsers |-> Response("", "", "", EmptyDict, <<>>)]
    /\ shownCount = EmptyDict

HistNext == \E u \in HistUsers : UserHistory(u)

\* users looking at their histories
SpecHistory == HistInit /\ [][HistNext]_vars

-----------------------------------------------------------------------------
(* The leaderboard of more users than it has places *)

\* the k-th user; Player(1) is the user of Users
Player(k) == "u" \o ToString(k)

\* the scores of quizzes of two questions
PlayerScores == 0 .. 2

\* no user, a few, or more than the leaderboard has places
PlayerCounts == 0 .. MaxPlayers

\* Users 1 .. k have completed one quiz of two questions each, user i with
\* score (a * i + b) modulo 3, and the first or the last may have completed a
\* second.
LeaderInit ==
    /\ questions = Bank(SetMax(PlayerScores))
    /\ nextQid = SetMax(PlayerScores) + 1
    /\ now = 0
    /\ adminOps = 0
    /\ \E k \in PlayerCounts, a \in PlayerScores, b \in PlayerScores :
          \E again \in {0, Min(1, k), k}, e \in PlayerScores :
            /\ again = 0 => e = 0
            /\ scores = [i \in 1 .. (k + IF again = 0 THEN 0 ELSE 1) |->
                            IF i <= k
                            THEN RowFor(Player(i),
                                        (a * i + b) % (SetMax(PlayerScores) + 1),
                                        SetMax(PlayerScores))
                            ELSE RowFor(Player(again), e, SetMax(PlayerScores))]
            /\ nextSid = k + (IF again = 0 THEN 0 ELSE 1) + 1
    /\ session = [u \in Users |-> EmptyDict]
    /\ page = [u \in Users |-> Response("", "", "", EmptyDict, <<>>)]
    /\ shownCount = EmptyDict

LeaderNext == \E u \in Users : Leaderboard(u)

\* a user looking at the leaderboard
SpecLeader == LeaderInit /\ [][LeaderNext]_vars

-----------------------------------------------------------------------------
(* Properties *)

\* this step created a UserScore row for user u
Created(u) == nextSid' = nextSid + 1 /\ scores'[nextSid].user = u

\* the quiz page is on the screen of user u
QuizOnScreen(u) == page[u].target = "quiz.html"

\* the fields of the quiz page that data leaves without a valid choice tag
Unanswered(data, qs) ==
    {k \in DOMAIN qs : Get(data, FieldName(qs[k].id), "") \notin Tags}

\* C1: every UserScore row created by a submission stores exactly the
\* questions (ids, text, choices, correct tag) of the quiz page that was shown
\* to that user before the submission, and their number as total_questions,
\* whatever happened to the QuizQuestion table in between.
C1_SnapshotIsPresented ==
    [][\A u \in Users :
        (Created(u) /\ QuizOnScreen(u)) =>
            /\ Range(scores'[nextSid].quiz_questions) = Range(page[u].questions)
            /\ scores'[nextSid].total_questions = Len(page[u].questions)]_vars

\* user u has completed the latest quiz and has neither set up nor been
\* presented a new one since
QuizCompleted(u) ==
    /\ (nextSid - 1) \in DOMAIN scores
    /\ scores[nextSid - 1].user = u
    /\ ~Has(session[u], "quiz_settings")
    /\ ~Has(session[u], "quiz_start_time")

\* C2: once a submission has created a UserScore row, sending the same
\* answers again without a new settings or presentation step creates no
\* further row.
C2_NoDoubleSubmit ==
    [][\A u \in Users :
        QuizCompleted(u) =>
            ~(Created(u)
              /\ scores'[nextSid].user_answers = scores[nextSid - 1].user_answers)]_vars

\* C3: a submission that lacks a valid choice tag for a question of the quiz
\* on the screen creates no UserScore row and leaves the session alone.
C3_IncompleteRejected ==
    [][\A u \in Users : \A data \in PostInputs(u) :
        (QuizOnScreen(u) /\ Unanswered(data, page[u].questions) # {}
            /\ QuizPost(u, data)) =>
                (scores' = scores /\ session' = session)]_vars

\* the number of questions of the snapshot of row us that the answer map of
\* us answers with the snapshotted correct tag
SnapshotScore(us) ==
    Cardinality({k \in DOMAIN us.quiz_questions :
        Get(us.user_answers, ToString(us.quiz_questions[k].id), "")
            = us.quiz_questions[k].correct_answer})

\* C4: in every UserScore row, score is the number of snapshot questions
\* whose snapshotted correct tag is the answer stored for that question, and
\* total_questions is the length of the snapshot; so 0 <= score <= total and
\* total >= 1.
C4_ScoreCountsSnapshot ==
    \A id \in DOMAIN scores :
        /\ scores[id].score = SnapshotScore(scores[id])
        /\ scores[id].total_questions = Len(scores[id].quiz_questions)
        /\ 0 <= scores[id].score
        /\ scores[id].score <= scores[id].total_questions
        /\ scores[id].total_questions >= 1

\* a row with a right and a wrong answer
C4_Witness ==
    \E id \in DOMAIN scores :
        scores[id].score >= 1 /\ scores[id].score < scores[id].total_questions

\* C5: every persisted UserScore row has percentage = score / total * 100
\* when total > 0 and percentage = 0 when total = 0, whatever percentage the
\* instance carried into save().
C5_PercentageRecomputed ==
    \A id \in DOMAIN scores :
        LET us == scores[id] IN
        /\ us.percentage.den > 0
        /\ IF us.total_questions > 0
           THEN us.percentage.num * us.total_questions
                    = us.score * 100 * us.percentage.den
           ELSE us.percentage.num = 0

\* a row saved with a percentage strictly between 0 and 100
C5_Witness ==
    \E id \in DOMAIN scores :
        /\ scores[id].percentage.num > 0
        /\ scores[id].percentage.num < 100 * scores[id].percentage.den

\* C6: the start timestamp of the session is left unchanged by every
\* re-render of the same unanswered quiz (a repeated GET of quiz_view, or the
\* page shown again after a rejected submission).
C6_StartTimeKept ==
    [][\A u \in Users :
        (QuizOnScreen(u) /\ Has(session[u], "quiz_start_time") /\ page'[u] = page[u]) =>
            /\ Has(session'[u], "quiz_start_time")
            /\ session'[u]["quiz_start_time"] = session[u]["quiz_start_time"]]_vars

\* C6 as amended: every GET of quiz_view that presents a quiz stores the
\* current time as the start timestamp, replacing an earlier one; any other
\* step that ends with the quiz page on the screen (a rejected submission)
\* leaves the session unchanged; the elapsed time of a UserScore row is
\* measured from the start timestamp the session held at submission.
C6_StartTimeAtEveryGet ==
    [][\A u \in Users :
        /\ (page'[u].target = "quiz.html" /\ QuizGet(u)) =>
              /\ Has(session'[u], "quiz_start_time")
              /\ session'[u]["quiz_start_time"] = IsoFormat(now)
        /\ (page'[u].target = "quiz.html" /\ session'[u] # session[u]) => QuizGet(u)
        /\ (Created(u) /\ Has(session[u], "quiz_start_time")) =>
              scores'[nextSid].time_taken
                  = <<now - FromIsoFormat(session[u]["quiz_start_time"])>>]_vars

\* a quiz presented after the clock has advanced, its start time the current one
C6_Witness ==
    \E u \in Users :
        /\ QuizOnScreen(u)
        /\ now > 0
        /\ Has(session[u], "quiz_start_time")
        /\ session[u]["quiz_start_time"] = IsoFormat(now)

\* C7: a result is rendered at most once; rendering removes the marker from
\* the session, and a visit to quiz_results_view without a marker renders
\* nothing and redirects to home with an error.
C7_ResultShownOnce ==
    /\ [](\A id \in DOMAIN shownCount : shownCount[id] <= 1)
    /\ [][\A u \in Users :
            /\ (QuizResults(u) /\ shownCount' # shownCount) =>
                  ~Has(session'[u], "quiz_result_id")
            /\ (QuizResults(u) /\ ~Has(session[u], "quiz_result_id")) =>
                  (page'[u] = NoResults /\ shownCount' = shownCount
                   /\ session' = session)]_vars

\* a result was rendered and the next visit was sent home
C7_Witness ==
    \E u \in Users : \E id \in DOMAIN shownCount :
        /\ shownCount[id] = 1
        /\ id \in DOMAIN scores
        /\ scores[id].user = u
        /\ page[u] = NoResults

\* the settings are acceptable as the claim states it
SettingsAcceptable(num) ==
    num >= MinNumQuestions /\ num <= MaxNumQuestions /\ num <= ActiveCount

NamesAvailable == [code |-> "only_available", count |-> ActiveCount]

\* C8: quiz_setup_view stores settings only when 1 <= num_questions <= 50 and
\* num_questions <= number of active questions; otherwise it rejects them with
\* an error naming the available count, persists nothing and leaves the
\* settings of the session as they were.
C8_RejectNamesCount ==
    [][\A u \in Users : \A n \in NumInputs, d \in DifficultyInputs, r \in BOOLEAN :
        QuizSetupPost(u, n, d, r) =>
            IF SettingsAcceptable(n)
            THEN /\ Has(session'[u], "quiz_settings")
                 /\ session'[u]["quiz_settings"].num_questions = n
            ELSE /\ session' = session
                 /\ Has(page'[u].errors, "num_questions")
                 /\ page'[u].errors["num_questions"] = NamesAvailable]_vars

\* C8 as amended: settings are stored only when 1 <= num_questions <= 50 and
\* num_questions <= number of active questions; otherwise nothing is stored
\* and the session is unchanged, and the error names the available count when
\* 1 <= num_questions <= 50, and is the range error of the field when
\* num_questions is outside 1..50.
C8_SettingsValidated ==
    [][\A u \in Users : \A n \in NumInputs, d \in DifficultyInputs, r \in BOOLEAN :
        QuizSetupPost(u, n, d, r) =>
            IF SettingsAcceptable(n)
            THEN /\ Has(session'[u], "quiz_settings")
                 /\ session'[u]["quiz_settings"].num_questions = n
            ELSE /\ session' = session
                 /\ Has(page'[u].errors, "num_questions")
                 /\ page'[u].errors["num_questions"] =
                       IF n < MinNumQuestions
                       THEN [code |-> "min_value", count |-> MinNumQuestions]
                       ELSE IF n > MaxNumQuestions
                       THEN [code |-> "max_value", count |-> MaxNumQuestions]
                       ELSE NamesAvailable]_vars

\* a request for more questions than are active, answered with the count
C8_Witness ==
    \E u \in Users :
        /\ Has(page[u].errors, "num_questions")
        /\ page[u].errors["num_questions"] = NamesAvailable
        /\ ActiveCount >= 1

\* C9: no change of the QuizQuestion table (edit, activation, deactivation,
\* duplication, deletion, addition) changes an existing UserScore row or the
\* per-question breakdown quiz_results_view derives from it.
C9_SnapshotIsolation ==
    [][questions' # questions =>
        \A id \in DOMAIN scores :
            /\ id \in DOMAIN scores'
            /\ scores'[id] = scores[id]
            /\ DetailedResults(scores[id])' = DetailedResults(scores[id])]_vars

\* a row whose snapshot differs from the QuizQuestion table
C9_Witness ==
    \E id \in DOMAIN scores : \E k \in DOMAIN scores[id].quiz_questions :
        LET qd == scores[id].quiz_questions[k] IN
        \/ qd.id \notin DOMAIN questions
        \/ /\ qd.id \in DOMAIN questions
           /\ \/ questions[qd.id].question_text # qd.question
              \/ questions[qd.id].correct_answer # qd.correct_answer
              \/ ~questions[qd.id].is_active

\* C10: a UserScore row, once created, is never updated and never deleted.
C10_NeverUpdatedNorDeleted ==
    [][\A id \in DOMAIN scores :
        id \in DOMAIN scores' /\ scores'[id] = scores[id]]_vars

\* C10 as amended: a UserScore row is never updated while it exists (the
\* admin disables adding and changing); the admin can delete it.
C10_NeverUpdated ==
    [][\A id \in (DOMAIN scores) \cap (DOMAIN scores') :
        scores'[id] = scores[id]]_vars

\* a row the admin has deleted
C10_Witness ==
    /\ nextSid > 1
    /\ adminOps > 0
    /\ 1 \notin DOMAIN scores

\* the rank of a letter grade, F lowest
GradeRank(g) ==
    CASE g = "A" -> 4 [] g = "B" -> 3 [] g = "C" -> 2 [] g = "D" -> 1 [] OTHER -> 0

\* C11: for every UserScore row, get_grade is A when percentage >= 90, B when
\* 80 <= percentage < 90, C when 70 <= percentage < 80, D when
\* 60 <= percentage < 70 and F otherwise; a higher percentage never gives a
\* worse grade; is_passed holds exactly when percentage >= 60, that is
\* exactly when the grade is not F.
C11_GradeMapping ==
    /\ \A id \in DOMAIN scores :
          LET us == scores[id]
              n == us.percentage.num
              d == us.percentage.den
              g == get_grade(us)
          IN  /\ d > 0
              /\ (g = "A") <=> (n >= 90 * d)
              /\ (g = "B") <=> (n >= 80 * d /\ n < 90 * d)
              /\ (g = "C") <=> (n >= 70 * d /\ n < 80 * d)
              /\ (g = "D") <=> (n >= 60 * d /\ n < 70 * d)
              /\ (g = "F") <=> (n < 60 * d)
              /\ is_passed(us) <=> (n >= 60 * d)
              /\ is_passed(us) <=> (g # "F")
    /\ \A i \in DOMAIN scores, j \in DOMAIN scores :
          (scores[i].percentage.num * scores[j].percentage.den
               <= scores[j].percentage.num * scores[i].percentage.den) =>
              GradeRank(get_grade(scores[i])) <= GradeRank(get_grade(scores[j]))

\* the results page of a quiz with exactly 90 percent shows grade A, next
\* to an earlier row just below 90 percent
C11_Witness ==
    \E u \in Users :
        /\ page[u].target = "results.html"
        /\ page[u].context[1].grade = "A"
        /\ 2 \in DOMAIN scores
        /\ scores[2].percentage = Frac(90, 1)
        /\ scores[1].percentage.num < 90 * scores[1].percentage.den
        /\ scores[1].percentage.num > 88 * scores[1].percentage.den

\* the settings of the end-to-end case
ThreeInOrder == [num_questions |-> 3, difficulty |-> "ALL", random_order |-> FALSE]

\* the ids of a list of snapshot entries
Ids(qs) == [k \in DOMAIN qs |-> qs[k].id]

\* the stored order presents all three questions, and a row with two right
\* answers of three has score 2, total 3 and percentage 2/3*100
ThreePresentedAndScored(u) ==
    /\ (/\ Has(session[u], "quiz_settings")
        /\ session[u]["quiz_settings"] = ThreeInOrder
        /\ ActiveCount = 3
        /\ QuizGet(u)) =>
          /\ page'[u].target = "quiz.html"
          /\ Ids(page'[u].questions) = Descending(DOMAIN questions)
    /\ (Created(u) /\ Len(scores'[nextSid].quiz_questions) = 3
            /\ SnapshotScore(scores'[nextSid]) = 2) =>
          /\ scores'[nextSid].score = 2
          /\ scores'[nextSid].total_questions = 3
          /\ scores'[nextSid].percentage = Frac(200, 3)

\* quiz_results_view renders the row of the pending result, a row of score 2
\* of 3
ShowsTwoOfThree(u) ==
    /\ Has(session[u], "quiz_result_id")
    /\ session[u]["quiz_result_id"] \in DOMAIN scores
    /\ scores[session[u]["quiz_result_id"]].score = 2
    /\ scores[session[u]["quiz_result_id"]].total_questions = 3
    /\ QuizResults(u)

\* C12: with 3 active questions, settings count 3 and random order off, the
\* quiz presents all 3 questions in stored order; a submission with 2 right
\* answers and 1 wrong one yields a row with score 2, total 3, and its
\* results page shows percentage 66.7, grade D and passed = False.
C12_TwoOfThreeFails ==
    [][\A u \in Users :
        /\ ThreePresentedAndScored(u)
        /\ ShowsTwoOfThree(u) =>
              /\ page'[u].context[1].percentage = 667
              /\ page'[u].context[1].grade = "D"
              /\ page'[u].context[1].passed = FALSE]_vars

\* C12 as amended: the same, with passed = True (66.7 >= 60).
C12_TwoOfThreePasses ==
    [][\A u \in Users :
        /\ ThreePresentedAndScored(u)
        /\ ShowsTwoOfThree(u) =>
              /\ page'[u].context[1].percentage = 667
              /\ page'[u].context[1].grade = "D"
              /\ page'[u].context[1].passed = TRUE]_vars

\* the results page of a quiz of three questions in stored order with two
\* right answers
C12_Witness ==
    \E u \in Users :
        /\ page[u].target = "results.html"
        /\ page[u].context[1].percentage = 667
        /\ 1 \in DOMAIN scores
        /\ Ids(scores[1].quiz_questions) = <<3, 2, 1>>
        /\ scores[1].score = 2

\* the active questions that match the difficulty filter of settings st
Matching(st) ==
    {i \in DOMAIN questions :
        /\ questions[i].is_active
        /\ st.difficulty = "ALL" \/ questions[i].difficulty_level = st.difficulty}

\* C13: the questions quiz_view selects are active and match the difficulty
\* filter (any difficulty when it is ALL), none is repeated, and their number
\* is min(count, number of matching active questions); with random order off
\* they are the first count matching questions in stored order (newest
\* first), and with random order on every matching active question can be
\* selected.
C13_Selection ==
    /\ [][\A u \in Users :
            (page'[u].target = "quiz.html" /\ QuizGet(u)) =>
                LET st == QuizSettings(u)
                    ids == Ids(page'[u].questions)
                IN  /\ \A k \in DOMAIN ids : ids[k] \in Matching(st)
                    /\ \A k \in DOMAIN ids, l \in DOMAIN ids : ids[k] = ids[l] => k = l
                    /\ Len(ids) = Min(st.num_questions, Cardinality(Matching(st)))
                    /\ ~st.random_order =>
                          /\ \A k \in DOMAIN ids, l \in DOMAIN ids :
                                k < l => ids[k] > ids[l]
                          /\ \A i \in Matching(st) \ Range(ids) :
                                \A k \in DOMAIN ids : i < ids[k]]_vars
    /\ [](\A u \in Users :
            QuizSettings(u).random_order =>
                \A i \in Matching(QuizSettings(u)) :
                    ENABLED (QuizGet(u) /\ i \in Range(Ids(page'[u].questions))))

\* a quiz of the two newest of three matching questions, in stored order
C13_Witness ==
    \E u \in Users :
        /\ page[u].target = "quiz.html"
        /\ Has(session[u], "quiz_settings")
        /\ ~session[u]["quiz_settings"].random_order
        /\ Cardinality(Matching(session[u]["quiz_settings"])) = 3
        /\ Ids(page[u].questions) = <<3, 2>>

\* the sum over the rows ids of percentage * Scale, Scale a common multiple
\* of the totals
RECURSIVE ScaledPctSum(_, _)
ScaledPctSum(ids, Scale) ==
    IF ids = {} THEN 0
    ELSE LET i == CHOOSE x \in ids : TRUE
         IN  (scores[i].score * 100 * Scale) \div scores[i].total_questions
                 + ScaledPctSum(ids \ {i}, Scale)

RECURSIVE TotalsProduct(_)
TotalsProduct(ids) ==
    IF ids = {} THEN 1
    ELSE LET i == CHOOSE x \in ids : TRUE
         IN  scores[i].total_questions * TotalsProduct(ids \ {i})

\* tenths is the quotient num / den to one decimal: it differs from it by at
\* most one twentieth
ToOneDecimal(tenths, num, den) ==
    /\ 2 * (10 * num - tenths * den) <= den
    /\ 2 * (tenths * den - 10 * num) <= den

\* C14: user_history_view for a user reports only the rows of that user;
\* attempt count = their number; best = a row of maximum percentage; average
\* = the mean of their percentages; overall accuracy = sum of score / sum of
\* total_questions * 100, from the raw counts; average and accuracy are
\* given to one decimal, and all are 0 (best: none) without rows.
C14_HistoryAggregates ==
    [][\A u \in HistUsers :
        (page'[u].target = "user_history.html" /\ UserHistory(u)) =>
            LET ctx == page'[u].context[1]
                mine == {i \in DOMAIN scores : scores[i].user = u}
            IN  /\ Range(ctx.user_scores) = mine
                /\ Len(ctx.user_scores) = Cardinality(mine)
                /\ ctx.total_attempts = Cardinality(mine)
                /\ IF mine = {}
                   THEN /\ ctx.best_score = <<>>
                        /\ ctx.average_score = 0
                        /\ ctx.overall_accuracy = 0
                   ELSE /\ Len(ctx.best_score) = 1
                        /\ ctx.best_score[1] \in mine
                        /\ \A j \in mine :
                              scores[j].score * scores[ctx.best_score[1]].total_questions
                                <= scores[ctx.best_score[1]].score * scores[j].total_questions
                        /\ ToOneDecimal(ctx.average_score,
                                        ScaledPctSum(mine, TotalsProduct(mine)),
                                        TotalsProduct(mine) * Cardinality(mine))
                        /\ ToOneDecimal(ctx.overall_accuracy,
                                        100 * SumScore(mine), SumTotal(mine))]_vars

\* the history of a user with rows of 95 and 70 percent, next to a row of
\* another user: best 95, average 82.5, accuracy 82.5
C14_Witness ==
    \E u \in HistUsers :
        /\ page[u].target = "user_history.html"
        /\ page[u].context[1].total_attempts = 2
        /\ page[u].context[1].average_score = 825
        /\ scores[page[u].context[1].best_score[1]].percentage = Frac(95, 1)
        /\ \E i \in DOMAIN scores : scores[i].user # u

\* C15: the top list of leaderboard_view has at most 20 entries, exactly one
\* per user with a row (up to the limit), each with that user's maximum
\* percentage, number of attempts and mean percentage over all rows of the
\* user; the entries are in descending order of maximum percentage, and no
\* user left out has a strictly higher maximum than a user included.
C15_Leaderboard ==
    [][\A u \in Users :
        (page'[u].target = "leaderboard.html" /\ Leaderboard(u)) =>
            LET top == page'[u].context[1].top_scores
                Rows(v) == {i \in DOMAIN scores : scores[i].user = v}
                HasRows == {scores[i].user : i \in DOMAIN scores}
                Included == {top[i].user__username : i \in DOMAIN top}
                best == [v \in HasRows |->
                            CHOOSE i \in Rows(v) : \A j \in Rows(v) :
                                scores[j].score * scores[i].total_questions
                                  <= scores[i].score * scores[j].total_questions]
                Best(v) == best[v]
                Higher(i, j) == scores[i].score * scores[j].total_questions
                                  > scores[j].score * scores[i].total_questions
            IN  /\ Len(top) <= 20
                /\ Len(top) = Min(20, Cardinality(HasRows))
                /\ Included \subseteq HasRows
                /\ Cardinality(Included) = Len(top)
                /\ \A i \in DOMAIN top :
                      LET v == top[i].user__username
                      IN  /\ top[i].best_score = scores[Best(v)].percentage
                          /\ top[i].total_attempts = Cardinality(Rows(v))
                          /\ top[i].avg_score.num * TotalsProduct(Rows(v)) * Cardinality(Rows(v))
                               = ScaledPctSum(Rows(v), TotalsProduct(Rows(v))) * top[i].avg_score.den
                /\ \A i, j \in DOMAIN top :
                      i < j => ~Higher(Best(top[j].user__username), Best(top[i].user__username))
                /\ \A v \in HasRows \ Included : \A w \in Included :
                      ~Higher(Best(v), Best(w))]_vars

\* a full leaderboard that leaves a user out, with an entry of two attempts
\* whose mean is below its maximum
C15_Witness ==
    \E u \in Users :
        /\ page[u].target = "leaderboard.html"
        /\ Len(page[u].context[1].top_scores) = TopN
        /\ Cardinality(Players) > TopN
        /\ \E i \in DOMAIN page[u].context[1].top_scores :
              /\ page[u].context[1].top_scores[i].total_attempts = 2
              /\ page[u].context[1].top_scores[i].avg_score
                   # page[u].context[1].top_scores[i].best_score

\* No start time was ever recorded in the session of u: it holds none and u
\* has no row.  (While the clock runs no row is deleted, and a start time
\* leaves the session only when a row is created.)
NeverStarted(u) ==
    /\ ~Has(session[u], "quiz_start_time")
    /\ \A i \in DOMAIN scores : scores[i].user # u

\* C16 as stated: the elapsed time of a new row is the submission time minus
\* the start time the session held before the submission, and null when no
\* start time was ever recorded in the session.
C16_ElapsedOrNull ==
    [][\A u \in Users : Created(u) =>
          /\ Has(session[u], "quiz_start_time") =>
                scores'[nextSid].time_taken
                  = <<now - FromIsoFormat(session[u]["quiz_start_time"])>>
          /\ NeverStarted(u) => scores'[nextSid].time_taken = <<>>]_vars

\* C16, amended: the elapsed time of a new row is the submission time minus
\* the start time the session held before the submission, and zero, never
\* null, when the session held none: quiz_view then takes the submission
\* time for the start.
C16_ElapsedOrZero ==
    [][\A u \in Users : Created(u) =>
          /\ Has(session[u], "quiz_start_time") =>
                scores'[nextSid].time_taken
                  = <<now - FromIsoFormat(session[u]["quiz_start_time"])>>
          /\ ~Has(session[u], "quiz_start_time") =>
                scores'[nextSid].time_taken = <<0>>
          /\ scores'[nextSid].time_taken # <<>>]_vars

\* after a quiz that took a while, a second row with no time elapsed: a
\* submission at a time later than any start time recorded before the first
C16_Witness ==
    \E u \in Users : \E i, j \in DOMAIN scores :
        /\ i < j
        /\ scores[i].user = u /\ scores[j].user = u
        /\ scores[i].time_taken = <<MaxTime>>
        /\ scores[j].time_taken = <<0>>
        /\ ~Has(session[u], "quiz_start_time")

\* the marker of u names no row of u: the row is gone or is another user's
StaleMarker(u) ==
    /\ Has(session[u], "quiz_result_id")
    /\ \A i \in DOMAIN scores :
          i = session[u]["quiz_result_id"] => scores[i].user # u

\* C17: quiz_results_view never fails hard on stale state: without a marker,
\* or with a marker naming a row that is gone or another user's, it answers
\* with a redirect and a message, not an error, and renders no row of
\* another user.
C17_StaleStateRedirects ==
    [][\A u \in Users :
          ((~Has(session[u], "quiz_result_id") \/ StaleMarker(u)) /\ QuizResults(u)) =>
              /\ page'[u].status = "redirect"
              /\ page'[u].message # ""
              /\ page'[u].status # "render"]_vars

====
